---- MODULE Spec2Model ----
(***************************************************************************)
(* A model of pygbx's byte cursor (pygbx/bytereader.py: ByteReaderBase and *)
(* ByteReader, with the lookback-string table) and of the LZO1X "safe"     *)
(* decoder that pygbx/lzo.py loads and whose C text it carries.            *)
(*                                                                         *)
(* Python integers are unbounded and TLC's are 32 bits wide, so an integer *)
(* VALUE that travels through the buffer is kept as a pair                 *)
(* [hi, lo] = hi * 65536 + lo with lo in 0..65535; positions, lengths and  *)
(* byte counts are plain integers.  A Python str is the sequence of its    *)
(* code points, a bytes/bytearray the sequence of its bytes.  A call that  *)
(* returns False is a result record with ok = FALSE.                       *)
(***************************************************************************)
EXTENDS Integers, Sequences, FiniteSets, TLC

VARIABLES
    reader,  \* the ByteReader object: data, pos, size, position_checkpoint,
             \* seen_lookback, stored_strings
    last,    \* the last call made on the reader: its name, arguments, result
             \* and the reader as it was before the call
    nops,    \* how many calls were made on the reader so far
    lzIn,    \* LZO: the compressed bytes handed to lzo1x_decompress_safe
    lzOutLen, \* LZO: uncompressed_size, the length of the output buffer
    lzUninit, \* LZO: what the C code finds where it was given nothing: the
             \* byte held by memory past the input, and m_pos before it is set
    lz,      \* LZO: the locals of the C function and where it stands
    lzResult \* LZO: what LZO.lzo1x_decompress_safe returned to its caller

readerVars == <<reader, last, nops>>
lzVars == <<lzIn, lzOutLen, lzUninit, lz, lzResult>>
vars == <<reader, last, nops, lzIn, lzOutLen, lzUninit, lz, lzResult>>

---------------------------------------------------------------------------
(* Bounds of the model *)

\* calls made on one reader in the cursor specification
MaxOps == 2
\* a write is taken only while the buffer stays within this many bytes
MaxLen == 6
\* skip() moves by at most this many bytes, and keeps the position within
\* this distance of the buffer
MaxSkip == 2
\* references in the stream a lookback session decodes
MaxRefs == 3
\* bytes missing from the end of that stream
MaxCut == 1
\* opcodes in a compressed stream
MaxTokens == 3
\* how many calls are made in the checkpoint specification
MaxCpOps == 4
\* how many calls are made in the vector specification
MaxVecOps == 3

---------------------------------------------------------------------------
(* Python values *)

Min(a, b) == IF a < b THEN a ELSE b
Max(a, b) == IF a < b THEN b ELSE a

\* a Python int n with |n| < 2^31 as a pair
Big(n) == [hi |-> n \div 65536, lo |-> n % 65536]
BigLe(a, b) == a.hi < b.hi \/ (a.hi = b.hi /\ a.lo <= b.lo)

\* an attribute that is None or an int
None == [none |-> TRUE, v |-> 0]
Some(n) == [none |-> FALSE, v |-> n]

IntFalse == [ok |-> FALSE, v |-> Big(0)]
IntOk(v) == [ok |-> TRUE, v |-> v]
SeqFalse == [ok |-> FALSE, v |-> <<>>]
SeqOk(s) == [ok |-> TRUE, v |-> s]
\* a byte count returned by a write (False, or the count)
CntFalse == [ok |-> FALSE, v |-> 0]
CntOk(n) == [ok |-> TRUE, v |-> n]

\* s[-1::-1]
Reverse(s) == [i \in 1..Len(s) |-> s[Len(s) + 1 - i]]

\* Python's slice index normalisation for a sequence of length L
PySliceIdx(i, L) == IF i < 0 THEN Max(i + L, 0) ELSE Min(i, L)

\* s[a:b]
PyGetSlice(s, a, b) ==
    LET lo == PySliceIdx(a, Len(s))
        hi == PySliceIdx(b, Len(s))
    IN  IF lo < hi THEN SubSeq(s, lo + 1, hi) ELSE <<>>

\* s[a:b] = x
PySetSlice(s, a, b, x) ==
    LET lo == PySliceIdx(a, Len(s))
        hi == Max(PySliceIdx(b, Len(s)), lo)
    IN  SubSeq(s, 1, lo) \o x \o SubSeq(s, hi + 1, Len(s))

---------------------------------------------------------------------------
(* struct.pack / struct.unpack for the integer format characters *)

IntTypes == {"uint8", "int8", "uint16", "int16", "uint32", "int32"}

\* B b H h I i
Width(ty) ==
    CASE ty \in {"uint8", "int8"}   -> 1
      [] ty \in {"uint16", "int16"} -> 2
      [] ty \in {"uint32", "int32"} -> 4

Signed(ty) == ty \in {"int8", "int16", "int32"}

\* the range struct.pack accepts for the format character
TypeMin(ty) ==
    CASE ty = "int8"  -> Big(-128)
      [] ty = "int16" -> Big(-32768)
      [] ty = "int32" -> [hi |-> -32768, lo |-> 0]
      [] OTHER        -> Big(0)

TypeMax(ty) ==
    CASE ty = "uint8"  -> Big(255)
      [] ty = "int8"   -> Big(127)
      [] ty = "uint16" -> Big(65535)
      [] ty = "int16"  -> Big(32767)
      [] ty = "uint32" -> [hi |-> 65535, lo |-> 65535]
      [] ty = "int32"  -> [hi |-> 32767, lo |-> 65535]

Representable(ty, v) == BigLe(TypeMin(ty), v) /\ BigLe(v, TypeMax(ty))

\* the two's complement big-endian bytes of v in w bytes
BytesBE(v, w) ==
    LET h == v.hi % 65536
        all == <<h \div 256, h % 256, v.lo \div 256, v.lo % 256>>
    IN  SubSeq(all, 5 - w, 4)

\* the value of w big-endian bytes
ValueBE(bs, ty) ==
    LET w == Width(ty)
        u == CASE w = 1 -> [hi |-> 0, lo |-> bs[1]]
               [] w = 2 -> [hi |-> 0, lo |-> (bs[1] * 256) + bs[2]]
               [] w = 4 -> [hi |-> (bs[1] * 256) + bs[2], lo |-> (bs[3] * 256) + bs[4]]
    IN  IF Signed(ty) /\ bs[1] >= 128
        THEN CASE w = 1 -> [hi |-> -1, lo |-> 65280 + bs[1]]
               [] w = 2 -> [hi |-> -1, lo |-> u.lo]
               [] w = 4 -> [hi |-> u.hi - 65536, lo |-> u.lo]
        ELSE u

\* PackInt that takes no notice of the byte order asked for
PackIntOneOrder(ty, v, little_endian) ==
    IF ~Representable(ty, v) THEN SeqFalse ELSE SeqOk(BytesBE(v, Width(ty)))

\* PackInt that wraps a value out of range instead of refusing it
PackIntWrapping(ty, v, little_endian) ==
    LET be == BytesBE(v, Width(ty))
    IN  SeqOk(IF little_endian THEN Reverse(be) ELSE be)

\* struct.pack('<X' or '>X', v): struct.error (here ok = FALSE) out of range
PackInt(ty, v, little_endian) ==
    IF ~Representable(ty, v) THEN SeqFalse
    ELSE LET be == BytesBE(v, Width(ty))
         IN  SeqOk(IF little_endian THEN Reverse(be) ELSE be)

\* struct.unpack('<X' or '>X', val)[0]: struct.error unless len(val) is the width
UnpackInt(ty, val, little_endian) ==
    IF Len(val) # Width(ty) THEN IntFalse
    ELSE IntOk(ValueBE(IF little_endian THEN Reverse(val) ELSE val, ty))

---------------------------------------------------------------------------
(* str.encode('utf-8') and bytes.decode('utf-8') *)

Utf8EncodeChar(cp) ==
    IF cp < 128 THEN <<cp>>
    ELSE IF cp < 2048 THEN <<192 + (cp \div 64), 128 + (cp % 64)>>
    ELSE IF cp < 65536
         THEN <<224 + (cp \div 4096), 128 + ((cp \div 64) % 64), 128 + (cp % 64)>>
    ELSE <<240 + (cp \div 262144), 128 + ((cp \div 4096) % 64),
           128 + ((cp \div 64) % 64), 128 + (cp % 64)>>

RECURSIVE Utf8Encode(_)
Utf8Encode(s) ==
    IF s = <<>> THEN <<>> ELSE Utf8EncodeChar(Head(s)) \o Utf8Encode(Tail(s))

\* how many bytes the sequence led by b takes; 0 when b cannot lead one
Utf8SeqLen(b) ==
    IF b < 128 THEN 1
    ELSE IF b \in 194..223 THEN 2
    ELSE IF b \in 224..239 THEN 3
    ELSE IF b \in 240..244 THEN 4
    ELSE 0

\* the values the byte after the lead byte b may take
Utf8SecondRange(b) ==
    CASE b = 224 -> 160..191
      [] b = 237 -> 128..159
      [] b = 240 -> 144..191
      [] b = 244 -> 128..143
      [] OTHER   -> 128..191

RECURSIVE Utf8DecodeFrom(_, _)
Utf8DecodeFrom(bs, i) ==
    IF i > Len(bs) THEN SeqOk(<<>>)
    ELSE
      LET b == bs[i]
          n == Utf8SeqLen(b)
      IN  IF n = 0 \/ i + n - 1 > Len(bs) THEN SeqFalse
          ELSE IF n >= 2 /\ bs[i + 1] \notin Utf8SecondRange(b) THEN SeqFalse
          ELSE IF \E k \in 2..(n - 1) : bs[i + k] \notin 128..191 THEN SeqFalse
          ELSE
            LET cp == CASE n = 1 -> b
                        [] n = 2 -> (b - 192) * 64 + (bs[i + 1] - 128)
                        [] n = 3 -> (b - 224) * 4096 + (bs[i + 1] - 128) * 64
                                    + (bs[i + 2] - 128)
                        [] n = 4 -> (b - 240) * 262144 + (bs[i + 1] - 128) * 4096
                                    + (bs[i + 2] - 128) * 64 + (bs[i + 3] - 128)
                rest == Utf8DecodeFrom(bs, i + n)
            IN  IF rest.ok THEN SeqOk(<<cp>> \o rest.v) ELSE SeqFalse

\* val.decode('utf-8'): UnicodeDecodeError is ok = FALSE
Utf8Decode(bs) == Utf8DecodeFrom(bs, 1)

---------------------------------------------------------------------------
(* ByteReaderBase *)

\* PositionCheckpoint(None, None)
NoCheckpoint == [pos |-> None, size |-> None]

\* a reader constructed with the marker word taken as seen already
NewReaderMarkerSeen(bytes) ==
    [data |-> bytes, pos |-> 0, size |-> Len(bytes),
     position_checkpoint |-> NoCheckpoint,
     seen_lookback |-> TRUE, stored_strings |-> <<>>]

\* ByteReader.__init__ over the bytes `data`
NewReader(bytes) ==
    [data |-> bytes, pos |-> 0, size |-> Len(bytes),
     position_checkpoint |-> NoCheckpoint,
     seen_lookback |-> FALSE, stored_strings |-> <<>>]

\* __get_bytes: self.data[self.pos:self.pos+num_bytes]
GetBytes(rd, num_bytes) == PyGetSlice(rd.data, rd.pos, rd.pos + num_bytes)

\* read() up to the format: the slice is taken and the position moves by
\* what was actually read
ReadAdvance(rd, num_bytes) ==
    [rd EXCEPT !.pos = rd.pos + Len(GetBytes(rd, num_bytes))]

\* read(num_bytes, None, little_endian): the bytes, short or not
ReadRaw(rd, num_bytes, little_endian) ==
    LET val == GetBytes(rd, num_bytes)
    IN  [rd |-> ReadAdvance(rd, num_bytes),
         ret |-> SeqOk(IF little_endian THEN Reverse(val) ELSE val)]

\* read(width, 'B'|'b'|'H'|'h'|'I'|'i', little_endian): read_uint32 .. read_int8
ReadInt(rd, ty, little_endian) ==
    [rd |-> ReadAdvance(rd, Width(ty)),
     ret |-> UnpackInt(ty, GetBytes(rd, Width(ty)), little_endian)]

\* skip(num_bytes)
Skip(rd, num_bytes) == [rd EXCEPT !.pos = rd.pos + num_bytes]

\* write() after the format is built: __write_bytes stores the packed bytes
\* at pos, then size and pos move
WritePacked(rd, packed) ==
    IF ~packed.ok THEN [rd |-> rd, ret |-> CntFalse]
    ELSE
      LET n == Len(packed.v)
          stored == [rd EXCEPT !.data = PySetSlice(rd.data, rd.pos, rd.pos + n, packed.v)]
      IN  IF n = 0 THEN [rd |-> stored, ret |-> CntOk(0)]
          ELSE [rd |-> [stored EXCEPT
                          !.size = IF rd.pos + n > rd.size THEN rd.pos + n ELSE rd.size,
                          !.pos = rd.pos + n],
                ret |-> CntOk(n)]

\* the range test of write_uint32 .. write_int8 before write() is called
GuardMin(ty) == TypeMin(ty)

GuardMax(ty) == IF ty = "uint16" THEN Big(65536) ELSE TypeMax(ty)

WriteGuard(ty, v) == BigLe(GuardMin(ty), v) /\ BigLe(v, GuardMax(ty))

\* write_uint32 .. write_int8
WriteInt(rd, ty, v, little_endian) ==
    IF WriteGuard(ty, v) THEN WritePacked(rd, PackInt(ty, v, little_endian))
    ELSE [rd |-> rd, ret |-> CntFalse]

\* write(data, None, little_endian) with a bytearray
WriteRaw(rd, bytes, little_endian) ==
    WritePacked(rd, SeqOk(IF little_endian THEN Reverse(bytes) ELSE bytes))

\* write_string(data, little_endian) with a str
WriteString(rd, s, little_endian) ==
    IF s = <<>> THEN [rd |-> rd, ret |-> CntOk(0)]
    ELSE LET string_encoded == Utf8Encode(s)
         IN  WritePacked(rd, SeqOk(IF little_endian THEN Reverse(string_encoded)
                                   ELSE string_encoded))

\* read(num_bytes, f'{num_bytes}s', little_endian): struct.unpack gives the
\* bytes as they are stored, and fails unless exactly num_bytes were read
\* (a negative count is no format at all)
ReadPacked(rd, num_bytes) ==
    LET val == GetBytes(rd, num_bytes)
    IN  [rd |-> ReadAdvance(rd, num_bytes),
         ret |-> IF num_bytes >= 0 /\ Len(val) = num_bytes THEN SeqOk(val) ELSE SeqFalse]

\* ByteReaderBase.read_string(num_bytes, little_endian)
ReadString(rd, num_bytes, little_endian) ==
    LET r == ReadPacked(rd, num_bytes)
        val == Utf8Decode(r.ret.v)
    IN  IF ~r.ret.ok \/ ~val.ok THEN [rd |-> r.rd, ret |-> SeqFalse]
        ELSE [rd |-> r.rd, ret |-> SeqOk(IF little_endian THEN Reverse(val.v) ELSE val.v)]

\* a byte count read from the buffer, as a plain integer: a count of 65536 or
\* more reads as 65536 (the buffers of the model are shorter, so the slice
\* taken and the length test of struct.unpack come out the same)
Clip(n) == IF n.hi > 0 THEN 65536 ELSE n.lo

\* ByteReader.read_string(None, little_endian): read_uint32() gives the count;
\* when that read fails the count is False, the slice is empty and the format
\* 'Falses' is refused
ReadStringPrefixed(rd, little_endian) ==
    LET n == ReadInt(rd, "uint32", TRUE)
    IN  IF ~n.ret.ok THEN [rd |-> n.rd, ret |-> SeqFalse]
        ELSE ReadString(n.rd, Clip(n.ret.v), little_endian)

\* push_position_checkpoint
PushPositionCheckpoint(rd) ==
    [rd EXCEPT !.position_checkpoint = [pos |-> Some(rd.pos), size |-> None]]

\* pop_position_checkpoint that measures the length from offset 0
PopPositionCheckpointFromZero(rd) ==
    [rd EXCEPT !.position_checkpoint.size = Some(rd.pos)]

\* pop_position_checkpoint (after a push: the subtraction raises on None)
PopPositionCheckpoint(rd) ==
    [rd EXCEPT !.position_checkpoint.size = Some(rd.pos - rd.position_checkpoint.pos.v)]

---------------------------------------------------------------------------
(* ByteReader.read_string_lookback *)

\* the value Python computes with when the word read returned False
PyInt(res) == IF res.ok THEN res.v ELSE Big(0)

\* IsInlineMarker that asks for both of the two top bits
IsInlineMarkerBothBits(inp) ==
    /\ inp.hi \div 16384 = 3
    /\ inp.hi % 16384 = 0 /\ inp.lo = 0

\* IsInlineMarker that does not look at the low 30 bits
IsInlineMarkerTopOnly(inp) == inp.hi \div 16384 # 0

\* (inp & 0xc0000000) != 0 and (inp & 0x3fffffff) == 0, for inp in 0..2^32-1
IsInlineMarker(inp) ==
    /\ inp.hi \div 16384 # 0
    /\ inp.hi % 16384 = 0 /\ inp.lo = 0

\* inp & 0x3fffffff, for inp in 0..2^32-1
Mask30(inp) == [hi |-> inp.hi % 16384, lo |-> inp.lo]

Valley == <<86, 97, 108, 108, 101, 121>>
Canyon == <<67, 97, 110, 121, 111, 110>>
Lagoon == <<76, 97, 103, 111, 111, 110>>
TMCommon == <<84, 77, 67, 111, 109, 109, 111, 110>>
Storm == <<83, 116, 111, 114, 109>>
SMCommon == <<83, 77, 67, 111, 109, 109, 111, 110>>
Common == <<67, 111, 109, 109, 111, 110>>

\* the identifiers of the built-in names
WellKnownIds == {Big(11), Big(12), Big(13), Big(17), Big(202), Big(299), Big(10003)}

WellKnownName(inp) ==
    CASE inp = Big(11)    -> Valley
      [] inp = Big(12)    -> Canyon
      [] inp = Big(13)    -> Lagoon
      [] inp = Big(17)    -> TMCommon
      [] inp = Big(202)   -> Storm
      [] inp = Big(299)   -> SMCommon
      [] inp = Big(10003) -> Common

\* LookbackIndex that takes the masked word as a 0-based index
LookbackIndexZeroBased(stored_strings, inp) ==
    IF inp.hi > 0 \/ inp.lo >= Len(stored_strings) THEN SeqOk(<<>>)
    ELSE stored_strings[inp.lo + 1]

\* stored_strings[-1] of an empty table raises IndexError out of the call
IndexError == [ok |-> FALSE, v |-> <<-1>>]

\* the last three lines: '' if inp - 1 >= len(stored_strings), else
\* stored_strings[inp - 1]; inp is the masked word (a table is shorter than
\* 65536 entries here, so a word with hi > 0 is beyond it; inp = 0 does not
\* reach these lines, and would index from the end)
LookbackIndex(stored_strings, inp) ==
    IF inp.hi > 0 \/ inp.lo - 1 >= Len(stored_strings) THEN SeqOk(<<>>)
    ELSE IF inp.lo = 0
    THEN IF stored_strings = <<>> THEN IndexError
         ELSE stored_strings[Len(stored_strings)]
    ELSE stored_strings[inp.lo]

\* read_string_lookback: the reader it leaves, what it returns, the
\* reference word it read and the position right after that word
ReadStringLookback(rd) ==
    LET r0 == IF ~rd.seen_lookback THEN ReadInt(rd, "uint32", TRUE).rd ELSE rd
        r1 == [r0 EXCEPT !.seen_lookback = TRUE]
        w == ReadInt(r1, "uint32", TRUE)
        inp == PyInt(w.ret)
        here == [word |-> w.ret, word_pos |-> r1.pos, word_end |-> w.rd.pos]
    IN  IF IsInlineMarker(inp) \/ inp = Big(0)
        THEN LET s == ReadStringPrefixed(w.rd, FALSE)
             IN  [rd |-> [s.rd EXCEPT !.stored_strings = Append(@, s.ret)],
                  ret |-> s.ret] @@ here
        ELSE IF inp = Big(-1) THEN [rd |-> w.rd, ret |-> SeqOk(<<>>)] @@ here
        ELSE IF Mask30(inp) = inp /\ inp \in WellKnownIds
        THEN [rd |-> w.rd, ret |-> SeqOk(WellKnownName(inp))] @@ here
        ELSE [rd |-> w.rd, ret |-> LookbackIndex(w.rd.stored_strings, Mask30(inp))] @@ here

---------------------------------------------------------------------------
(* ByteReader.read_vec3 and write_vec3.  A Python float is kept as the four *)
(* bytes of the nearest 32-bit float (sign and exponent first), with two    *)
(* flags: fits, whether struct.pack('f') accepts it (it raises              *)
(* OverflowError beyond the 32-bit range), and exact, whether the float is  *)
(* that 32-bit value itself.                                                *)

FloatOf(bits) == [fits |-> TRUE, exact |-> TRUE, bits |-> bits]

FltFalse == [ok |-> FALSE, v |-> FloatOf(<<0, 0, 0, 0>>)]
FltOk(f) == [ok |-> TRUE, v |-> f]

\* struct.pack('<f' or '>f', v)
PackFloat(v, little_endian) ==
    IF ~v.fits THEN SeqFalse
    ELSE SeqOk(IF little_endian THEN Reverse(v.bits) ELSE v.bits)

\* struct.unpack('<f' or '>f', val)[0]
UnpackFloat(val, little_endian) ==
    IF Len(val) # 4 THEN FltFalse
    ELSE FltOk(FloatOf(IF little_endian THEN Reverse(val) ELSE val))

\* read_float(little_endian): read(4, 'f', little_endian)
ReadFloat(rd, little_endian) ==
    [rd |-> ReadAdvance(rd, 4), ret |-> UnpackFloat(GetBytes(rd, 4), little_endian)]

\* read_vec3(little_endian): three read_float() calls, each little-endian by
\* read_float's default; the flag reverses the order of the three values
ReadVec3(rd, little_endian) ==
    LET f1 == ReadFloat(rd, TRUE)
        f2 == ReadFloat(f1.rd, TRUE)
        f3 == ReadFloat(f2.rd, TRUE)
    IN  [rd |-> f3.rd,
         ret |-> IF little_endian THEN [x |-> f3.ret, y |-> f2.ret, z |-> f1.ret]
                 ELSE [x |-> f1.ret, y |-> f2.ret, z |-> f3.ret]]

\* result if result else 0
CountOf(ret) == IF ret.ok THEN ret.v ELSE 0

\* write_vec3(data, little_endian) for a Vector3 of floats: three
\* self.write(component, 'f') calls, big-endian by ByteReader.write's default;
\* x, y, z with the flag and z, y, x without
WriteVec3(rd, data, little_endian) ==
    LET w1 == WritePacked(rd, PackFloat(IF little_endian THEN data.x ELSE data.z, FALSE))
        w2 == WritePacked(w1.rd, PackFloat(data.y, FALSE))
        w3 == WritePacked(w2.rd, PackFloat(IF little_endian THEN data.z ELSE data.x, FALSE))
    IN  [rd |-> w3.rd, ret |-> CntOk(CountOf(w1.ret) + CountOf(w2.ret) + CountOf(w3.ret))]

---------------------------------------------------------------------------
(* lzo1x_decompress_safe: the C function of lzo.py, lines 63-366.  Pointers *)
(* are offsets: ip into the input, op and m_pos into the output buffer.    *)

\* *(in + i): past the input the C code reads whatever memory holds
In(i) == IF 0 <= i /\ i < Len(lzIn) THEN lzIn[i + 1] ELSE lzUninit.mem

\* ULess that lets through a count one greater than what is left
ULessOffByOne(a, b) == a >= 0 /\ a + 1 < b

\* (unsigned long)(a) < (unsigned long)(b) for a count b: a negative
\* difference of pointers is a huge unsigned number
ULess(a, b) == a >= 0 /\ a < b

\* the locals on entry: *out_len = 0; op = out; ip = in
LzoEntry ==
    [pc |-> "start", ip |-> 0, op |-> 0, t |-> 0, m_pos |-> lzUninit.m_pos,
     out |-> [i \in 1..lzOutLen |-> 0],
     needs_first_literal_run |-> FALSE, needs_match_done |-> FALSE,
     needs_match |-> FALSE, ret |-> 0, site |-> "none", tag |-> 0]

\* *out_len = op - out; return code (site names the return statement)
Return(s, code, site) == [s EXCEPT !.pc = "done", !.ret = code, !.site = site]

\* *op++ = *ip++, n times
CopyIn(s, n) ==
    [s EXCEPT !.out = [i \in 1..lzOutLen |->
                          IF s.op < i /\ i <= s.op + n THEN In(s.ip + (i - s.op - 1))
                          ELSE s.out[i]],
              !.ip = s.ip + n, !.op = s.op + n]

RECURSIVE CopyMatch(_, _)
\* *op++ = *m_pos++, n times, a byte at a time (the source may overlap the
\* bytes being written); the 4-byte copies of lines 307-312 are taken only
\* when op - m_pos >= 4 and store the same bytes
CopyMatch(s, n) ==
    IF n = 0 THEN s
    ELSE CopyMatch([s EXCEPT !.out[s.op + 1] = s.out[s.m_pos + 1],
                             !.op = s.op + 1, !.m_pos = s.m_pos + 1], n - 1)

RECURSIVE ExtRun(_, _)
\* lines 136-149 (and 226-239, 250-263): zero bytes add 255 each, the first
\* byte that is not zero ends the count; ok = FALSE is return -4
ExtRun(ip, acc) ==
    IF ULess(Len(lzIn) - ip, 1) THEN [ok |-> FALSE, ip |-> ip, t |-> acc]
    ELSE IF In(ip) = 0 THEN ExtRun(ip + 1, acc + 255)
    ELSE [ok |-> TRUE, ip |-> ip + 1, t |-> acc + In(ip)]

\* lines 82-123: the initial literal run
LzoStartStep(s) ==
    IF In(0) > 17
    THEN LET t == In(0) - 17
             s1 == [s EXCEPT !.ip = 1, !.t = t]
         IN  IF ULess(lzOutLen - s1.op, t) THEN Return(s1, -5, "start")
             ELSE IF ULess(Len(lzIn) - s1.ip, t + 1) THEN Return(s1, -4, "start")
             ELSE IF t < 4
             THEN LET s2 == CopyIn(s1, t)
                      s3 == [s2 EXCEPT !.t = In(s2.ip), !.ip = s2.ip + 1]
                  IN  IF s3.ip >= Len(lzIn) THEN Return(s3, -7, "start")
                      ELSE [s3 EXCEPT !.pc = "loop"]
             ELSE [CopyIn(s1, t) EXCEPT !.t = 0, !.needs_first_literal_run = TRUE,
                                        !.pc = "loop"]
    ELSE [s EXCEPT !.pc = "loop"]

\* line 125, and lines 364-365 when the loop ends
LzoLoopStep(s) ==
    IF s.ip < Len(lzIn) \/ s.needs_first_literal_run
    THEN [s EXCEPT !.pc = "literal"]
    ELSE Return(s, -7, "loop_end")

\* lines 181-197: the tag after a literal run; below 16 it is a 3-byte match
\* at a distance of 0x0801 and more
LzoAfterLiteral(s0) ==
    LET s == [s0 EXCEPT !.t = In(s0.ip), !.ip = s0.ip + 1, !.tag = In(s0.ip)]
    IN  IF s.t < 16
        THEN LET m == s.op - 2049 - (s.t \div 4) - (In(s.ip) * 4)
                 s1 == [s EXCEPT !.m_pos = m, !.ip = s.ip + 1]
             IN  IF m < 0 \/ m >= s1.op THEN Return(s1, -6, "literal_match")
                 ELSE IF ULess(lzOutLen - s1.op, 3) THEN Return(s1, -5, "literal_match")
                 ELSE [CopyMatch(s1, 3) EXCEPT !.m_pos = m + 2,
                                               !.needs_match_done = TRUE, !.pc = "match"]
        ELSE [s EXCEPT !.pc = "match"]

\* lines 127-200: a tag is read; below 16 it counts a literal run
LzoLiteralStep(s) ==
    IF s.needs_match THEN [s EXCEPT !.needs_match = FALSE, !.pc = "match"]
    ELSE IF s.needs_first_literal_run
    THEN LzoAfterLiteral([s EXCEPT !.needs_first_literal_run = FALSE])
    ELSE
      LET s1 == [s EXCEPT !.t = In(s.ip), !.ip = s.ip + 1, !.tag = In(s.ip)]
      IN  IF s1.t >= 16 THEN [s1 EXCEPT !.needs_match = TRUE, !.pc = "loop"]
          ELSE
            LET x == IF s1.t = 0 THEN ExtRun(s1.ip, 0)
                     ELSE [ok |-> TRUE, ip |-> s1.ip, t |-> s1.t]
                s2 == [s1 EXCEPT !.ip = x.ip, !.t = IF s1.t = 0 THEN x.t + 15 ELSE x.t]
            IN  IF ~x.ok THEN Return([s1 EXCEPT !.ip = x.ip, !.t = x.t], -4, "literal")
                ELSE IF ULess(lzOutLen - s2.op, s2.t + 3) THEN Return(s2, -5, "literal")
                ELSE IF ULess(Len(lzIn) - s2.ip, s2.t + 4) THEN Return(s2, -4, "literal")
                ELSE LzoAfterLiteral([CopyIn(s2, s2.t + 3) EXCEPT !.t = 0])

\* the end-of-stream marker taken as success with input left over as well
SentinelCodeLax(ip, ip_end) == IF ip <= ip_end THEN 0 ELSE -4

\* line 271: the end-of-stream marker was met
SentinelCode(ip, ip_end) == IF ip = ip_end THEN 0 ELSE IF ip < ip_end THEN -8 ELSE -4

\* lines 295-321: the match is copied from m_pos, t + 2 bytes
LzoCopyMatch(s) ==
    IF s.m_pos < 0 \/ s.m_pos >= s.op THEN Return(s, -6, "match")
    ELSE IF ULess(lzOutLen - s.op, s.t + 2) THEN Return(s, -5, "match")
    ELSE [CopyMatch(s, s.t + 2) EXCEPT !.t = 0, !.pc = "trailing"]

\* lines 203-328: one match is decoded from the tag in t and copied
LzoMatchStep(s0) ==
    LET s == [s0 EXCEPT !.tag = IF s0.needs_match_done THEN s0.tag ELSE s0.t]
        t == s.t
    IN  IF s.needs_match_done THEN [s EXCEPT !.needs_match_done = FALSE, !.pc = "trailing"]
        ELSE IF t >= 64
        THEN LET m == s.op - 1 - ((t \div 4) % 8) - (In(s.ip) * 8)
                 s1 == [s EXCEPT !.m_pos = m, !.ip = s.ip + 1, !.t = (t \div 32) - 1]
             IN  LzoCopyMatch(s1)
        ELSE IF t >= 32
        THEN LET x == IF t % 32 = 0 THEN ExtRun(s.ip, 0)
                      ELSE [ok |-> TRUE, ip |-> s.ip, t |-> t % 32]
             IN  IF ~x.ok THEN Return([s EXCEPT !.ip = x.ip, !.t = x.t], -4, "match")
                 ELSE LzoCopyMatch([s EXCEPT !.ip = x.ip + 2,
                                             !.t = IF t % 32 = 0 THEN x.t + 31 ELSE x.t])
        ELSE IF t >= 16
        THEN LET m0 == s.op - (((t \div 8) % 2) * 8 * 2048)
                 x == IF t % 8 = 0 THEN ExtRun(s.ip, 0)
                      ELSE [ok |-> TRUE, ip |-> s.ip, t |-> t % 8]
                 m1 == m0 - ((In(x.ip) + (256 * In(x.ip + 1))) \div 4)
                 s1 == [s EXCEPT !.ip = x.ip + 2, !.m_pos = m1,
                                 !.t = IF t % 8 = 0 THEN x.t + 7 ELSE x.t]
             IN  IF ~x.ok
                 THEN Return([s EXCEPT !.ip = x.ip, !.t = x.t, !.m_pos = m0], -4, "match")
                 ELSE IF m1 = s1.op
                 THEN Return(s1, SentinelCode(s1.ip, Len(lzIn)), "sentinel")
                 ELSE LzoCopyMatch([s1 EXCEPT !.m_pos = m1 - 16384])
        ELSE LET m == s.op - 1 - (t \div 4) - (In(s.ip) * 4)
                 s1 == [s EXCEPT !.m_pos = m, !.ip = s.ip + 1]
             IN  IF m < 0 \/ m >= s1.op THEN Return(s1, -6, "match")
                 ELSE IF ULess(lzOutLen - s1.op, 2) THEN Return(s1, -5, "match")
                 ELSE [CopyMatch(s1, 2) EXCEPT !.m_pos = m + 1, !.pc = "trailing"]

\* lines 330-361: the literals that trail a match, and the next tag
LzoTrailingStep(s0) ==
    LET s == [s0 EXCEPT !.t = In(s0.ip - 2) % 4]
    IN  IF s.t = 0 THEN [s EXCEPT !.pc = "loop"]
        ELSE IF ULess(lzOutLen - s.op, s.t) THEN Return(s, -5, "trailing")
        ELSE IF ULess(Len(lzIn) - s.ip, s.t + 1) THEN Return(s, -4, "trailing")
        ELSE LET s1 == CopyIn(s, s.t)
                 s2 == [s1 EXCEPT !.t = In(s1.ip), !.ip = s1.ip + 1]
             IN  IF s2.ip >= Len(lzIn) THEN Return(s2, -7, "trailing")
                 ELSE [s2 EXCEPT !.pc = "match"]

\* LZO._lzo1x_decompress_safe_libs, lines 47-51: the C function has filled
\* self.out, and self.out is returned
LibsResult(s) == SeqOk(s.out)

\* no decompression is under way
LzoIdle ==
    /\ lzIn = <<>>
    /\ lzOutLen = 0
    /\ lzUninit = [mem |-> 0, m_pos |-> 0]
    /\ lz = [pc |-> "idle"]
    /\ lzResult = [pc |-> "idle"]

---------------------------------------------------------------------------
(* The cursor specification: calls on one reader *)

\* the buffers a reader is constructed over
InitBuffers == {<<>>, <<1, 2>>, <<65, 195, 169, 66>>}

\* one value of each integer type whose bytes differ from each other
AsymSample(ty) ==
    CASE ty = "uint8"  -> Big(18)
      [] ty = "int8"   -> Big(-2)
      [] ty = "uint16" -> Big(258)
      [] ty = "int16"  -> Big(-2)
      [] ty = "uint32" -> [hi |-> 258, lo |-> 772]
      [] ty = "int32"  -> [hi |-> -32510, lo |-> 772]

\* values the integer type can hold: the ends of its range and AsymSample
ValidSamples(ty) == {TypeMin(ty), AsymSample(ty), TypeMax(ty)}

\* integers next to the type's range, outside it
InvalidSamples(ty) ==
    CASE ty = "uint8"  -> {Big(-1), Big(256)}
      [] ty = "int8"   -> {Big(-129), Big(128)}
      [] ty = "uint16" -> {Big(-1), Big(65536), Big(65537)}
      [] ty = "int16"  -> {Big(-32769), Big(32768)}
      [] ty = "uint32" -> {Big(-1), [hi |-> 65536, lo |-> 0]}
      [] ty = "int32"  -> {[hi |-> -32769, lo |-> 65535], [hi |-> 32768, lo |-> 0]}

\* values handed to a lone integer write
WriteSamples(ty) == InvalidSamples(ty) \cup {AsymSample(ty)}

\* strings handed to write_string: "", "A", "AB", "\u00e9", "A\u20ac"
StrSamples == {<<>>, <<65>>, <<65, 66>>, <<233>>, <<65, 8364>>}

InitCursor ==
    /\ reader \in {NewReader(b) : b \in InitBuffers}
    /\ last = [op |-> "init"]
    /\ nops = 0
    /\ LzoIdle

\* a call is made: the reader it leaves and the record of the call
Call(rd, rec) ==
    /\ nops < MaxOps
    /\ Len(rd.data) <= MaxLen
    /\ reader' = rd
    /\ last' = rec
    /\ nops' = nops + 1
    /\ UNCHANGED lzVars

DoSkip ==
    \E d \in (-MaxSkip..MaxSkip) \ {0} :
        /\ reader.pos + d \in -MaxSkip..(Len(reader.data) + MaxSkip)
        /\ Call(Skip(reader, d), [op |-> "skip", pre |-> reader, n |-> d])

DoWriteInt ==
    \E ty \in IntTypes, le \in BOOLEAN : \E v \in WriteSamples(ty) :
        LET w == WriteInt(reader, ty, v, le)
        IN  Call(w.rd, [op |-> "write_int", pre |-> reader, ty |-> ty, v |-> v,
                        le |-> le, ret |-> w.ret])

DoReadInt ==
    \E ty \in IntTypes, le \in BOOLEAN :
        LET r == ReadInt(reader, ty, le)
        IN  Call(r.rd, [op |-> "read_int", pre |-> reader, ty |-> ty, n |-> Width(ty),
                        le |-> le, ret |-> r.ret])

DoReadRaw ==
    \E n \in 0..3, le \in BOOLEAN :
        LET r == ReadRaw(reader, n, le)
        IN  Call(r.rd, [op |-> "read_raw", pre |-> reader, n |-> n,
                        le |-> le, ret |-> r.ret])

DoWriteString ==
    \E s \in StrSamples, le \in BOOLEAN :
        LET w == WriteString(reader, s, le)
        IN  Call(w.rd, [op |-> "write_string", pre |-> reader, s |-> s,
                        le |-> le, ret |-> w.ret])

DoReadString ==
    \E n \in 0..3, le \in BOOLEAN :
        LET r == ReadString(reader, n, le)
        IN  Call(r.rd, [op |-> "read_string", pre |-> reader, n |-> n,
                        le |-> le, ret |-> r.ret])

\* write_X(v, e); skip(-width); read_X(e)
DoRoundTripInt ==
    \E ty \in IntTypes, le \in BOOLEAN : \E v \in ValidSamples(ty) :
        LET w == WriteInt(reader, ty, v, le)
            s == Skip(w.rd, -Width(ty))
            r == ReadInt(s, ty, le)
        IN  Call(r.rd, [op |-> "roundtrip_int", pre |-> reader, ty |-> ty, v |-> v,
                        le |-> le, wret |-> w.ret, wpos |-> w.rd.pos, ret |-> r.ret])

\* n = write_string(s, flag); skip(-n); read_string(n, flag)
DoRoundTripString ==
    \E s \in StrSamples, le \in BOOLEAN :
        LET w == WriteString(reader, s, le)
            k == Skip(w.rd, -w.ret.v)
            r == ReadString(k, w.ret.v, le)
        IN  /\ w.ret.ok
            /\ Call(r.rd, [op |-> "roundtrip_string", pre |-> reader, s |-> s,
                           le |-> le, wret |-> w.ret, ret |-> r.ret])

DoPushCheckpoint ==
    Call(PushPositionCheckpoint(reader), [op |-> "push", pre |-> reader])

DoPopCheckpoint ==
    /\ ~reader.position_checkpoint.pos.none
    /\ Call(PopPositionCheckpoint(reader), [op |-> "pop", pre |-> reader])

NextCursor ==
    \/ DoSkip
    \/ DoWriteInt
    \/ DoReadInt
    \/ DoReadRaw
    \/ DoWriteString
    \/ DoReadString
    \/ DoRoundTripInt
    \/ DoRoundTripString
    \/ DoPushCheckpoint
    \/ DoPopCheckpoint

Spec == InitCursor /\ [][NextCursor]_vars

---------------------------------------------------------------------------
(* The lookback specification: one reader decodes a stream of references *)

\* a 32-bit word as it lies in the buffer
Word(w) == PackInt("uint32", w, TRUE).v

\* a length-prefixed string body
Body(bytes) == Word(Big(Len(bytes))) \o bytes

\* one reference of the stream: a word that introduces a string inline
\* (0 and 0xC0000000 with "A", 0x40000000 with "\u00e9", 0x80000000 with a
\* body that is no UTF-8), or a lone word: 1, 0x80000002, 13, 0x4000000D,
\* 0xFFFFFFFF
RefTokens ==
    {Word(Big(0)) \o Body(<<65>>),
     Word([hi |-> 49152, lo |-> 0]) \o Body(<<65>>),
     Word([hi |-> 16384, lo |-> 0]) \o Body(<<195, 169>>),
     Word([hi |-> 32768, lo |-> 0]) \o Body(<<255>>)}
    \cup {Word(w) : w \in {Big(1), [hi |-> 32768, lo |-> 2], Big(13),
                           [hi |-> 16384, lo |-> 13], [hi |-> 65535, lo |-> 65535]}}

RECURSIVE Streams(_)
\* the streams of n references
Streams(n) ==
    IF n = 0 THEN {<<>>}
    ELSE {t \o rest : t \in RefTokens, rest \in Streams(n - 1)}

\* the leading marker word, then up to MaxRefs references, with up to MaxCut
\* bytes missing at the end
LookbackBuffers ==
    {SubSeq(Word(Big(3)) \o st, 1, 4 + Len(st) - cut) :
        st \in UNION {Streams(n) : n \in 0..MaxRefs}, cut \in 0..MaxCut}

InitLookback ==
    /\ reader \in {NewReader(b) : b \in LookbackBuffers}
    /\ last = [op |-> "init"]
    /\ nops = 0
    /\ LzoIdle

\* read_string_lookback is called until the buffer is used up, and once more
DoReadStringLookback ==
    LET r == ReadStringLookback(reader)
    IN  /\ nops <= MaxRefs
        /\ last.op = "lookback" => last.pre.pos < Len(reader.data)
        /\ reader' = r.rd
        /\ last' = [op |-> "lookback", pre |-> reader, ret |-> r.ret, word |-> r.word,
                    word_pos |-> r.word_pos, word_end |-> r.word_end]
        /\ nops' = nops + 1
        /\ UNCHANGED lzVars

NextLookback == DoReadStringLookback

SpecLookback == InitLookback /\ [][NextLookback]_vars

---------------------------------------------------------------------------
(* The LZO specification: one call of LZO.lzo1x_decompress_safe *)

\* the opcodes streams are made of: the end-of-stream marker and its tag
\* alone, an initial literal run of 1, 2, 3 and of 4 bytes, a literal run of
\* 4 bytes, a match of 3 bytes at distance 1 (tag 64), the same with one
\* trailing literal (65), a match of the 32-63 class (33), and a zero byte
LzoTokens ==
    {<<17, 0, 0>>, <<17>>, <<18, 7>>, <<19, 7, 8>>, <<20, 7, 8, 9>>,
     <<21, 1, 2, 3, 4>>, <<1, 1, 2, 3, 4>>,
     <<64, 0>>, <<65, 0, 9>>, <<33, 0, 0>>, <<0>>}

RECURSIVE LzoStreams(_)
LzoStreams(n) ==
    IF n = 0 THEN {<<>>}
    ELSE {t \o rest : t \in LzoTokens, rest \in LzoStreams(n - 1)}

\* the values of uncompressed_size
LzoOutLens == {0, 1, 2, 3, 4, 7}

\* what uninitialised memory holds
LzoUninits == {[mem |-> 0, m_pos |-> 0], [mem |-> 255, m_pos |-> -1]}

InitLzo ==
    /\ reader = NewReader(<<>>)
    /\ last = [op |-> "init"]
    /\ nops = 0
    /\ lzIn \in UNION {LzoStreams(n) : n \in 0..MaxTokens}
    /\ lzOutLen \in LzoOutLens
    /\ lzUninit \in LzoUninits
    /\ lz = LzoEntry
    /\ lzResult = [pc |-> "called"]

LzoStep(pc, next) ==
    /\ lz.pc = pc
    /\ lz' = next
    /\ UNCHANGED <<lzIn, lzOutLen, lzUninit, lzResult, reader, last, nops>>

LzoStart == LzoStep("start", LzoStartStep(lz))
LzoLoop == LzoStep("loop", LzoLoopStep(lz))
LzoLiteral == LzoStep("literal", LzoLiteralStep(lz))
LzoMatch == LzoStep("match", LzoMatchStep(lz))
LzoTrailing == LzoStep("trailing", LzoTrailingStep(lz))

LzoReturn ==
    /\ lz.pc = "done"
    /\ lzResult.pc = "called"
    /\ lzResult' = [pc |-> "returned", ret |-> LibsResult(lz)]
    /\ UNCHANGED <<lzIn, lzOutLen, lzUninit, lz, reader, last, nops>>

NextLzo ==
    \/ LzoStart
    \/ LzoLoop
    \/ LzoLiteral
    \/ LzoMatch
    \/ LzoTrailing
    \/ LzoReturn

SpecLzo == InitLzo /\ [][NextLzo]_vars

---------------------------------------------------------------------------
(* The checkpoint specification: sections are opened and closed between    *)
(* skips, reads and writes; last.opened is the position at the latest push *)

\* PositionCheckpoint.valid
Valid(cp) ==
    /\ ~cp.pos.none /\ ~cp.size.none
    /\ 0 <= cp.pos.v /\ cp.pos.v <= cp.size.v
    /\ cp.size.v > 0

\* the buffers the sections are opened over
CheckpointBuffers == {<<>>, <<1, 2, 3>>}

\* the distances skipped: up to MaxSkip either way, and 7 forward
CheckpointSkips == ((-MaxSkip..MaxSkip) \ {0}) \cup {7}

InitCheckpoint ==
    /\ reader \in {NewReader(b) : b \in CheckpointBuffers}
    /\ last = [op |-> "init", opened |-> None]
    /\ nops = 0
    /\ LzoIdle

\* a call is made; the position of the latest push is carried along
CpCall(rd, rec) ==
    /\ nops < MaxCpOps
    /\ reader' = rd
    /\ last' = rec @@ [opened |-> last.opened]
    /\ nops' = nops + 1
    /\ UNCHANGED lzVars

CpSkip ==
    \E d \in CheckpointSkips :
        CpCall(Skip(reader, d), [op |-> "skip", pre |-> reader, n |-> d])

CpRead ==
    \E n \in 1..2 :
        LET r == ReadRaw(reader, n, FALSE)
        IN  CpCall(r.rd, [op |-> "read_raw", pre |-> reader, n |-> n, le |-> FALSE,
                          ret |-> r.ret])

CpWrite ==
    \E ty \in {"uint8", "uint16"} :
        LET w == WriteInt(reader, ty, AsymSample(ty), TRUE)
        IN  CpCall(w.rd, [op |-> "write_int", pre |-> reader, ty |-> ty,
                          v |-> AsymSample(ty), le |-> TRUE, ret |-> w.ret])

CpPush ==
    CpCall(PushPositionCheckpoint(reader),
           [op |-> "push", pre |-> reader, opened |-> Some(reader.pos)])

\* pop_position_checkpoint; with no push before it, self.pos - None raises
\* TypeError and nothing is assigned
CpPop ==
    IF reader.position_checkpoint.pos.none
    THEN CpCall(reader, [op |-> "pop", pre |-> reader,
                         ret |-> [raised |-> TRUE, cp |-> reader.position_checkpoint]])
    ELSE LET rd == PopPositionCheckpoint(reader)
         IN  CpCall(rd, [op |-> "pop", pre |-> reader,
                         ret |-> [raised |-> FALSE, cp |-> rd.position_checkpoint]])

NextCheckpoint ==
    \/ CpSkip
    \/ CpRead
    \/ CpWrite
    \/ CpPush
    \/ CpPop

SpecCheckpoint == InitCheckpoint /\ [][NextCheckpoint]_vars

---------------------------------------------------------------------------
(* The vector specification: vectors are written and read back *)

\* 0.0, 1.0, 2.0, 3.0; 0.1, which no 32-bit float equals; 1e39, beyond them
Zero == FloatOf(<<0, 0, 0, 0>>)
One == FloatOf(<<63, 128, 0, 0>>)
Two == FloatOf(<<64, 0, 0, 0>>)
Three == FloatOf(<<64, 64, 0, 0>>)
Tenth == [fits |-> TRUE, exact |-> FALSE, bits |-> <<61, 204, 204, 205>>]
Huge == [fits |-> FALSE, exact |-> FALSE, bits |-> <<127, 128, 0, 0>>]

Vector3(x, y, z) == [x |-> x, y |-> y, z |-> z]

Vec3Samples ==
    {Vector3(Zero, Zero, Zero), Vector3(One, Two, Three), Vector3(One, One, One),
     Vector3(Two, One, Two), Vector3(Tenth, One, Two), Vector3(One, Huge, Two)}

Vec3Buffers == {<<>>, <<63, 128, 0, 0, 0, 0, 0, 64, 0, 0, 64, 64>>}

InitVec3 ==
    /\ reader \in {NewReader(b) : b \in Vec3Buffers}
    /\ last = [op |-> "init"]
    /\ nops = 0
    /\ LzoIdle

VecCall(rd, rec) ==
    /\ nops < MaxVecOps
    /\ reader' = rd
    /\ last' = rec
    /\ nops' = nops + 1
    /\ UNCHANGED lzVars

DoWriteVec3 ==
    \E v \in Vec3Samples, le \in BOOLEAN :
        LET w == WriteVec3(reader, v, le)
        IN  VecCall(w.rd, [op |-> "write_vec3", pre |-> reader, v |-> v, le |-> le,
                           ret |-> w.ret])

DoReadVec3 ==
    \E le \in BOOLEAN :
        LET r == ReadVec3(reader, le)
        IN  VecCall(r.rd, [op |-> "read_vec3", pre |-> reader, le |-> le, ret |-> r.ret])

\* write_vec3(v, flag); skip(-12); read_vec3(flag)
DoRoundTripVec3 ==
    \E v \in Vec3Samples, le \in BOOLEAN :
        LET w == WriteVec3(reader, v, le)
            k == Skip(w.rd, -12)
            r == ReadVec3(k, le)
        IN  VecCall(r.rd, [op |-> "roundtrip_vec3", pre |-> reader, v |-> v, le |-> le,
                           wret |-> w.ret, ret |-> r.ret])

DoSkipVec3 ==
    \E d \in {-12, -4, 4} :
        VecCall(Skip(reader, d), [op |-> "skip", pre |-> reader, n |-> d])

NextVec3 ==
    \/ DoWriteVec3
    \/ DoReadVec3
    \/ DoRoundTripVec3
    \/ DoSkipVec3

SpecVec3 == InitVec3 /\ [][NextVec3]_vars

---------------------------------------------------------------------------
(* The claims *)

\* the position lies in the buffer or at its end
InBuffer(rd) == 0 <= rd.pos /\ rd.pos <= Len(rd.data)

\* the bytes that remain after the position
Remaining(rd) == Len(rd.data) - rd.pos

\* C1: for every integer type, every value the type can hold and both byte
\* orders, at a position within 0..len(buffer): write_X(v, e) returns the
\* type's width and moves the position by it, and after skip(-width)
\* read_X(e) returns v and moves the position by the width again.
C1_IntRoundTrip ==
    (/\ last.op = "roundtrip_int"
     /\ Representable(last.ty, last.v)
     /\ InBuffer(last.pre))
    => /\ last.wret = CntOk(Width(last.ty))
       /\ last.wpos = last.pre.pos + Width(last.ty)
       /\ last.ret = IntOk(last.v)
       /\ reader.pos = last.pre.pos + Width(last.ty)

C1_Witness ==
    /\ last.op = "roundtrip_int"
    /\ last.ty = "int32" /\ last.v = AsymSample("int32") /\ ~last.le
    /\ InBuffer(last.pre) /\ last.pre.pos = 1 /\ Len(last.pre.data) = 2
    /\ last.ret = IntOk(last.v)
    /\ reader.data = <<1, 129, 2, 3, 4>>

\* C2: for every non-empty string s, also one with characters of more than
\* one byte, and both settings of little_endian: write_string(s, flag),
\* skip(-bytes_written), read_string(bytes_written, flag) returns s.
C2_StringRoundTrip ==
    (/\ last.op = "roundtrip_string"
     /\ last.s # <<>>
     /\ InBuffer(last.pre))
    => last.ret = SeqOk(last.s)

\* the 32-bit word w has both of its two top bits set, its low 30 bits zero
BothTopBitsOnly(w) == w.hi = 49152 /\ w.lo = 0

\* the 32-bit word w has one or both of its two top bits set, its low 30
\* bits zero
SomeTopBitOnly(w) == w.hi \in {16384, 32768, 49152} /\ w.lo = 0

\* the call read a string body, appended it to the table and returned it
InlineTaken ==
    /\ reader.stored_strings = Append(last.pre.stored_strings, last.ret)
    /\ reader.pos >= last.word_end

\* the call read nothing after the reference word and left the table alone
NothingAfterWord ==
    /\ reader.stored_strings = last.pre.stored_strings
    /\ reader.pos = last.word_end

\* C3 as stated: the inline path is taken exactly when the reference word
\* has both of its two top bits set with its low 30 bits zero, or is 0; for
\* every other word nothing is read after it and the table is unchanged.
C3_InlineIffBothTopBits ==
    (last.op = "lookback" /\ last.word.ok)
    => IF BothTopBitsOnly(last.word.v) \/ last.word.v = Big(0)
       THEN InlineTaken ELSE NothingAfterWord

\* C3 as amended: the inline path is taken exactly when the reference word
\* has at least one of its two top bits set with its low 30 bits zero, or is
\* 0; for every other word nothing is read after it and the table is
\* unchanged.
C3_InlineIffSomeTopBit ==
    (last.op = "lookback" /\ last.word.ok)
    => IF SomeTopBitOnly(last.word.v) \/ last.word.v = Big(0)
       THEN InlineTaken ELSE NothingAfterWord

C3_Witness ==
    /\ last.op = "lookback" /\ last.word = IntOk([hi |-> 16384, lo |-> 0])
    /\ last.ret = SeqOk(<<233>>)
    /\ Len(reader.stored_strings) = 2
    /\ reader.stored_strings[2] = SeqOk(<<233>>)
    /\ reader.pos = last.word_end + 6

\* the masked low 30 bits of the reference word, as a table index
RefIndex == Mask30(last.word.v)

\* C4: a back-reference (no inline marker, not 0xFFFFFFFF, none of the seven
\* built-in identifiers) with masked value i returns the i-th string of the
\* table if 1 <= i <= len(table) and "" if i > len(table); it reads only
\* the 4-byte reference word and leaves the table unchanged.
C4_BackReference ==
    (/\ last.op = "lookback" /\ last.word.ok
     /\ last.word.v # [hi |-> 65535, lo |-> 65535]
     /\ last.word.v \notin WellKnownIds
     /\ RefIndex # Big(0))
    => /\ last.ret = IF RefIndex.hi = 0 /\ RefIndex.lo <= Len(last.pre.stored_strings)
                     THEN last.pre.stored_strings[RefIndex.lo]
                     ELSE SeqOk(<<>>)
       /\ NothingAfterWord
       /\ reader.pos = last.word_pos + 4
       /\ last.pre.seen_lookback => reader.pos = last.pre.pos + 4

C4_Witness ==
    /\ last.op = "lookback" /\ last.word = IntOk([hi |-> 32768, lo |-> 2])
    /\ Len(last.pre.stored_strings) = 2
    /\ last.pre.stored_strings[1] # last.pre.stored_strings[2]
    /\ last.ret = SeqOk(<<233>>)

\* C5: lzo1x_decompress_safe never reports success for a stream that
\* describes more output than expected_output_length: the decoder never
\* writes at or past that offset, and when it stops with the output-overrun
\* code the caller gets a failure, not the buffer as if it were the output.
C5_OverflowReported ==
    /\ lz.op <= lzOutLen
    /\ Len(lz.out) = lzOutLen
    /\ (lzResult.pc = "returned" /\ lz.ret = -5) => ~lzResult.ret.ok

\* C6: the decoder returns 0 only from the end-of-stream marker, met in the
\* 16-31 class with the distance equal to the output position and the input
\* cursor exactly at the end of the input; the marker with input left (-8),
\* the marker past the end of the input (-4) and the loop ending without the
\* marker (-7) are errors.
C6_SuccessOnlyAtSentinel ==
    lz.pc = "done"
    => /\ lz.ret = 0 => /\ lz.site = "sentinel"
                        /\ lz.tag \in 16..31
                        /\ lz.m_pos = lz.op
                        /\ lz.ip = Len(lzIn)
       /\ (lz.site = "sentinel" /\ lz.ip < Len(lzIn)) => lz.ret = -8
       /\ (lz.site = "sentinel" /\ lz.ip > Len(lzIn)) => lz.ret = -4
       /\ lz.site = "loop_end" => lz.ret = -7
       /\ lz.site # "sentinel" => lz.ret < 0

C6_Witness ==
    /\ lz.pc = "done" /\ lz.ret = 0 /\ lz.site = "sentinel"
    /\ lzIn = <<1, 1, 2, 3, 4, 64, 0, 17, 0, 0>>
    /\ lz.ip = 10 /\ lz.op = 7
    /\ lz.out = <<1, 2, 3, 4, 4, 4, 4>>

\* C7: a read of n bytes with only r < n left after the position moves the
\* position by r and reports a failure, raw reads as well as numeric and
\* string reads.
C7_ShortReadFails ==
    (/\ last.op \in {"read_raw", "read_int", "read_string"}
     /\ InBuffer(last.pre)
     /\ Remaining(last.pre) < last.n)
    => /\ reader.pos = last.pre.pos + Remaining(last.pre)
       /\ ~last.ret.ok

\* C8: every integer write of a value outside the type's range returns the
\* failure value and leaves the buffer, its length, size and the position
\* unchanged.
C8_RangeViolation ==
    (last.op = "write_int" /\ ~Representable(last.ty, last.v))
    => /\ last.ret = CntFalse
       /\ reader.data = last.pre.data
       /\ reader.size = last.pre.size
       /\ reader.pos = last.pre.pos
       /\ reader = last.pre

C8_Witness ==
    /\ last.op = "write_int" /\ last.ty = "uint16" /\ last.v = Big(65536)
    /\ last.ret = CntFalse
    /\ last.pre.pos = 1 /\ Len(last.pre.data) = 4

\* C9: whenever a read or a write returns False, the position is what it
\* was before the call.
C9_FailureKeepsPosition ==
    (/\ last.op \in {"read_raw", "read_int", "read_string", "write_int", "write_string"}
     /\ ~last.ret.ok)
    => reader.pos = last.pre.pos

\* C10: on the reference word 0xFFFFFFFF read_string_lookback returns "",
\* reads no string body and leaves the table unchanged, whatever the table.
C10_AllOnesIsEmpty ==
    (last.op = "lookback" /\ last.word = IntOk([hi |-> 65535, lo |-> 65535]))
    => /\ last.ret = SeqOk(<<>>)
       /\ NothingAfterWord
       /\ reader.pos = last.word_pos + 4

C10_Witness ==
    /\ last.op = "lookback" /\ last.word = IntOk([hi |-> 65535, lo |-> 65535])
    /\ Len(last.pre.stored_strings) = 2
    /\ last.ret = SeqOk(<<>>)
    /\ reader.stored_strings = last.pre.stored_strings

\* C11: when the string body cannot be read on the inline path, the call
\* reports a failure and adds no entry to the table: every entry of the
\* table is a decoded string, and no back-reference returns a failure.
C11_FailedBodyNotStored ==
    /\ \A i \in 1..Len(reader.stored_strings) : reader.stored_strings[i].ok
    /\ (last.op = "lookback" /\ last.word.ok /\ ~last.ret.ok)
       => reader.stored_strings = last.pre.stored_strings
    /\ (last.op = "lookback" /\ last.word.ok /\ ~IsInlineMarker(last.word.v)
        /\ last.word.v # Big(0))
       => last.ret.ok

\* C12: in one session the leading marker word is consumed by the first
\* read_string_lookback call and by no later one: on a buffer that holds the
\* marker word the first call's reference word starts 4 bytes after the
\* call's starting position, every later call's reference word starts at the
\* call's starting position, and the flag is set after every call, so that
\* it is set before every call but the first.
C12_MarkerConsumedOnce ==
    last.op = "lookback"
    => /\ reader.seen_lookback
       /\ last.pre.seen_lookback <=> nops > 1
       /\ (nops = 1 /\ Remaining(last.pre) >= 4) => last.word_pos = last.pre.pos + 4
       /\ nops > 1 => last.word_pos = last.pre.pos
       /\ last.word.ok => last.word_end = last.word_pos + 4

C12_Witness ==
    /\ last.op = "lookback" /\ nops = 2
    /\ last.pre.seen_lookback /\ last.pre.pos = 13
    /\ last.word = IntOk(Big(1)) /\ last.word_pos = 13
    /\ reader.pos = 17 /\ last.ret = SeqOk(<<65>>)

\* C13: pop_position_checkpoint returns the reader's checkpoint, whose start
\* is the position at the latest push_position_checkpoint and whose length
\* is the current position minus that start, whatever skips, reads and
\* writes were made in between; the position is left alone.
C13_CheckpointLength ==
    (last.op = "pop" /\ ~last.opened.none)
    => /\ ~last.ret.raised
       /\ last.ret.cp = reader.position_checkpoint
       /\ reader.position_checkpoint.pos = last.opened
       /\ reader.position_checkpoint.size = Some(reader.pos - last.opened.v)
       /\ reader.pos = last.pre.pos

\* push at 2, skip(7), pop: length 7
C13_Witness ==
    /\ last.op = "pop" /\ last.opened = Some(2)
    /\ reader.pos = 9
    /\ last.ret = [raised |-> FALSE, cp |-> [pos |-> Some(2), size |-> Some(7)]]

\* C14: a checkpoint is valid exactly when its start is >= 0 and its length
\* is >= 0; one closed right after it was opened (length 0) and one whose
\* start is greater than its length are valid.
C14_ValidIffNonNegative ==
    (last.op = "pop" /\ ~last.ret.raised)
    => (Valid(reader.position_checkpoint)
        <=> /\ reader.position_checkpoint.pos.v >= 0
            /\ reader.position_checkpoint.size.v >= 0)

\* the input is the tag 17 + N of an initial literal run of N < 4 bytes and
\* those N bytes, nothing else, and the output has room for N bytes
LoneLiteralRun ==
    /\ Len(lzIn) >= 2 /\ Len(lzIn) <= 4
    /\ lzIn[1] = 17 + (Len(lzIn) - 1)
    /\ lzOutLen = Len(lzIn) - 1

\* C15 as stated: the tag 17 + N and N raw bytes, N in 1..3, with an output
\* of N bytes, decode successfully to those N bytes.
C15_LoneLiteralRunDecodes ==
    (lz.pc = "done" /\ LoneLiteralRun)
    => /\ lz.ret = 0
       /\ lz.op = lzOutLen
       /\ lz.out = SubSeq(lzIn, 2, Len(lzIn))

\* C15 as amended: the tag 17 + N and N raw bytes, N in 1..3, with an output
\* of N bytes, are refused: the decoder returns the input-overrun code -4
\* from the initial run's check, which asks for N + 1 bytes after the tag,
\* and has written nothing.
C15_LoneLiteralRunRejected ==
    (lz.pc = "done" /\ LoneLiteralRun)
    => /\ lz.ret = -4
       /\ lz.site = "start"
       /\ lz.op = 0
       /\ lz.out = [i \in 1..lzOutLen |-> 0]

C15_Witness ==
    /\ lz.pc = "done" /\ lzIn = <<20, 7, 8, 9>> /\ lzOutLen = 3
    /\ lz.ret = -4 /\ lz.op = 0 /\ lz.ip = 1
    /\ lzResult.pc = "returned"

\* the 14-bit distance in the two bytes before ip
Distance14(ip) == (In(ip - 2) + (256 * In(ip - 1))) \div 4

\* C18: a match of the 32-63 class is copied from the output position less 1
\* less the 14-bit distance of the opcode's two follow bytes, whatever match
\* was decoded before it, and is refused for its distance only when that
\* source lies before the start of the output.
C18_MatchSourceFromDistance ==
    /\ (lz.pc = "trailing" /\ lz.tag \in 32..63)
       => lz.op - lz.m_pos = 1 + Distance14(lz.ip)
    /\ (lz.pc = "done" /\ lz.site = "match" /\ lz.tag \in 32..63 /\ lz.ret = -6)
       => lz.op - 1 - Distance14(lz.ip) < 0

\* C17: in every state reached by reads, writes, skips (negative distances
\* too) and checkpoint calls, the position is >= 0.
C17_PositionNonNegative == reader.pos >= 0

\* the bytes a successful write call of the cursor specification stores
WrittenBytes ==
    IF last.op = "write_int" THEN PackInt(last.ty, last.v, last.le).v
    ELSE IF last.le THEN Reverse(Utf8Encode(last.s)) ELSE Utf8Encode(last.s)

\* C19: a successful write of k bytes at position p stores them at the buffer
\* offsets p .. p+k-1, and the logical size is the buffer's length, also when
\* skip had moved the position beyond the end of the buffer or below 0.
C19_WriteStoresAtPosition ==
    (/\ last.op \in {"write_int", "write_string"}
     /\ last.ret.ok /\ last.ret.v > 0)
    => /\ last.ret.v = Len(WrittenBytes)
       /\ \A i \in 1..last.ret.v :
             /\ last.pre.pos + i \in 1..Len(reader.data)
             /\ reader.data[last.pre.pos + i] = WrittenBytes[i]
       /\ reader.size = Len(reader.data)

\* a 32-bit float's bytes are those of a NaN, which equals nothing
IsNaN(bits) ==
    /\ bits[1] % 128 = 127 /\ bits[2] >= 128
    /\ <<bits[2] % 128, bits[3], bits[4]>> # <<0, 0, 0>>

\* the float read back equals the float f that was written (== of Python:
\* 0.0 and -0.0 are equal)
SameFloat(f, res) ==
    /\ res.ok /\ f.fits /\ f.exact
    /\ ~IsNaN(f.bits)
    /\ \/ res.v.bits = f.bits
       \/ /\ f.bits \in {<<0, 0, 0, 0>>, <<128, 0, 0, 0>>}
          /\ res.v.bits \in {<<0, 0, 0, 0>>, <<128, 0, 0, 0>>}

\* C16: for every Vector3 v of floats and each setting of the flag,
\* write_vec3(v, flag); skip(-12); read_vec3(flag) returns a vector with the
\* x, y and z of v.
C16_Vec3RoundTrip ==
    (last.op = "roundtrip_vec3" /\ InBuffer(last.pre))
    => /\ SameFloat(last.v.x, last.ret.x)
       /\ SameFloat(last.v.y, last.ret.y)
       /\ SameFloat(last.v.z, last.ret.z)

====
